---------------------------- MODULE Spec2Model ----------------------------
(***************************************************************************)
(* Model of the LU-factorization dispatch layer of                         *)
(* jaxlib/gpu/solver_kernels_ffi.cc: GetrfDispatch, GetrfImpl (the looped  *)
(* strategy) and GetrfBatchedImpl (the batched strategy), together with    *)
(* the collaborators they call: the two handle pools, the scratch          *)
(* allocator and the backend (workspace query, device copy, pointer-array  *)
(* build, single-matrix and batched factorization).                        *)
(*                                                                         *)
(* Every dispatch call is a small sequential program; its statements are   *)
(* the actions below and pc[c] is the statement call c executes next.      *)
(* Backend calls are external: each outcome they can report (success or    *)
(* failure, the workspace length, the info codes) is a nondeterministic    *)
(* choice.  hist[c] is a record of what call c has done so far (the        *)
(* backend calls it invoked, in order, the allocations it requested, the   *)
(* runtime failure it met); the program never reads it.                    *)
(*                                                                         *)
(* The C++ type int is modelled with IntBits bits instead of 32 (the       *)
(* model checker's integers are themselves 32 bits wide); int64_t and      *)
(* size_t values stay far below their limits for every input of the model  *)
(* and are plain integers.                                                 *)
(***************************************************************************)
EXTENDS Integers, Sequences, FiniteSets, TLC

(***************************************************************************)
(* Bounds of the model.                                                    *)
(***************************************************************************)
IntBits == 20          \* width of the C++ type int in the model
NumCalls == 2          \* dispatch calls that may be in flight together
NumStreams == 2        \* execution streams
MaxBatch == 3          \* largest batch whose matrices are enumerated
MaxDim == 2            \* largest "small" row / column count
MaxLwork == 2          \* largest workspace length the backend reports

(***************************************************************************)
(* Program constants.                                                      *)
(***************************************************************************)
BatchedThreshold == 128     \* rows / batch <= 128
SizeofVoidPtr == 8          \* sizeof(void*)

IntMax == 2^(IntBits - 1) - 1
IntMin == -(2^(IntBits - 1))

Calls == 1..NumCalls
Streams == 1..NumStreams
Handles == 1..NumCalls      \* a pool never needs more handles than callers
Pools == {"solver", "blas"}

Supported == {"F32", "F64", "C64", "C128"}
DataTypes == Supported \cup {"S32"}

\* sizeof(T) of the element type GetrfDispatch instantiates the templates with
SizeOf(t) ==
  CASE t = "F32" -> 4
    [] t = "F64" -> 8
    [] t = "C64" -> 8
    [] t = "C128" -> 16
    [] OTHER -> 0

Min(a, b) == IF a < b THEN a ELSE b

(***************************************************************************)
(* int arithmetic.  A result outside the range of int is undefined         *)
(* behaviour: the build either wraps it or carries the exact value in a    *)
(* wider register.                                                         *)
(***************************************************************************)
InInt(x) == IntMin <= x /\ x <= IntMax
WrapInt(x) == ((x - IntMin) % 2^IntBits) + IntMin
IntArith(x) == IF InInt(x) THEN {x} ELSE {x, WrapInt(x)}

(***************************************************************************)
(* Inputs of a dispatch call: the stream, the element types of the input   *)
(* and output buffers, the dimensions of the input buffer and whether the  *)
(* input and the output are the same device allocation.                    *)
(***************************************************************************)
TypePairs ==
  {<<t, t>> : t \in DataTypes} \cup {<<"F32", "F64">>, <<"S32", "F32">>}

SmallDims == 1..MaxDim

\* the least batch for which a matrix of IntMax + 1 rows passes the threshold
BigBatch == (IntMax + 1) \div BatchedThreshold

Shapes ==
  {<<>>, <<2>>}
    \cup {<<r, k>> : r \in SmallDims, k \in SmallDims}
    \cup {<<b, r, k>> : b \in 1..MaxBatch, r \in SmallDims, k \in SmallDims}
    \cup {<<0, 1, 1>>, <<2, 0, 0>>, <<2, 1, 2, 2>>}
    \* square matrices on both sides of the threshold rows / batch <= 128
    \cup UNION {{<<b, BatchedThreshold * b + b - 1, BatchedThreshold * b + b - 1>>,
                 <<b, BatchedThreshold * b + b, BatchedThreshold * b + b>>} :
                  b \in 2..MaxBatch}
    \* dimensions at and beyond the range of int
    \cup {<<1, IntMax, 2>>, <<2, 2, IntMax>>,
          <<1, IntMax + 1, 2>>, <<2, 2, IntMax + 1>>,
          <<2, IntMax + 1, IntMax + 1>>,
          <<BigBatch, IntMax + 1, IntMax + 1>>}
    \* a batch beyond the range of int, on the batched strategy
    \cup {<<IntMax + 1, 1, 1>>}

Args ==
  {[stream |-> s, inType |-> t[1], outType |-> t[2], dims |-> d, aliased |-> al] :
     s \in Streams, t \in TypePairs, d \in Shapes, al \in BOOLEAN}

\* the inputs of the concurrent specification: one looped and one batched shape
ConcArgs ==
  {[stream |-> s, inType |-> "F32", outType |-> "F32", dims |-> d, aliased |-> FALSE] :
     s \in Streams, d \in {<<1, 1>>, <<2, 1, 1>>}}

ArgInit ==
  [stream |-> 1, inType |-> "F32", outType |-> "F32", dims |-> <<>>, aliased |-> TRUE]

LocInit ==
  [batch |-> 0, rows |-> 0, cols |-> 0, m |-> 0, n |-> 0, lwork |-> 0, i |-> 0,
   out_data |-> 0, ipiv_data |-> 0, info_data |-> 0,
   pool |-> "none", handle |-> 0, workspace |-> FALSE]

HistInit ==
  [path |-> "none", log |-> <<>>, borrows |-> <<>>, allocs |-> <<>>,
   fail |-> "none", nfact |-> 0, bad |-> {}]

VARIABLES
  pc,      \* pc[c]: the statement dispatch call c executes next
  arg,     \* arg[c]: the arguments of call c
  loc,     \* loc[c]: the local variables of call c
  res,     \* res[c]: the ffi::Error call c returns ("none" while it runs)
  hist,    \* hist[c]: what call c has done so far
  made,    \* made[p]: handles pool p has created (they are 1..made[p])
  bound,   \* bound[p][h]: the stream handle h of pool p is bound to
  lease    \* lease[p][h]: the call handle h is checked out by (0: idle)

vars == <<pc, arg, loc, res, hist, made, bound, lease>>
poolVars == <<made, bound, lease>>

Init ==
  /\ pc = [c \in Calls |-> "idle"]
  /\ arg = [c \in Calls |-> ArgInit]
  /\ loc = [c \in Calls |-> LocInit]
  /\ res = [c \in Calls |-> "none"]
  /\ hist = [c \in Calls |-> HistInit]
  /\ made = [p \in Pools |-> 0]
  /\ bound = [p \in Pools |-> [h \in Handles |-> 0]]
  /\ lease = [p \in Pools |-> [h \in Handles |-> 0]]

(***************************************************************************)
(* Helpers of ffi_helpers.h.                                               *)
(***************************************************************************)
RECURSIVE Product(_)
Product(s) == IF s = <<>> THEN 1 ELSE Head(s) * Product(Tail(s))

\* SplitBatch2D(dims): (batch, rows, cols), or an InvalidArgument status
SplitBatch2D(dims) ==
  IF Len(dims) < 2
    THEN [ok |-> FALSE, code |-> "InvalidArgument", batch |-> 0, rows |-> 0, cols |-> 0]
    ELSE [ok |-> TRUE, code |-> "Success",
          batch |-> Product(SubSeq(dims, 1, Len(dims) - 2)),
          rows |-> dims[Len(dims) - 1], cols |-> dims[Len(dims)]]

\* MaybeCastNoOverflow<int>(v): v as an int, or an InvalidArgument status
MaybeCastNoOverflow(v) ==
  IF InInt(v) THEN [ok |-> TRUE, code |-> "Success", value |-> v]
              ELSE [ok |-> FALSE, code |-> "InvalidArgument", value |-> 0]

\* the code of the ffi::Error a failed backend call (JAX_AS_STATUS) becomes
BackendErrorCode == "Unknown"

(***************************************************************************)
(* The handle pools (SolverHandlePool, BlasHandlePool), after their        *)
(* documented contract: Borrow and the return of a handle are atomic.      *)
(***************************************************************************)
Idle(p) == {h \in 1..made[p] : lease[p][h] = 0}

\* What Borrow(stream) may return: an idle handle bound to the stream if
\* there is one, else any idle handle (it is rebound), else a new handle;
\* 0 stands for the failure of the creation of a new handle.
BorrowOutcomes(p, s) ==
  LET same == {h \in Idle(p) : bound[p][h] = s}
  IN  IF same # {} THEN same
      ELSE IF Idle(p) # {} THEN Idle(p)
      ELSE {0} \cup (IF made[p] < NumCalls THEN {made[p] + 1} ELSE {})

\* handle h of pool p is checked out by call c and bound to stream s
PoolBorrow(p, c, s, h) ==
  /\ lease' = [lease EXCEPT ![p][h] = c]
  /\ bound' = [bound EXCEPT ![p][h] = s]
  /\ made' = [made EXCEPT ![p] = IF h > @ THEN h ELSE @]

\* ~Handle(): the handle goes back to its pool, still bound to its stream
PoolReturn(p, h) ==
  /\ lease' = [lease EXCEPT ![p][h] = 0]
  /\ UNCHANGED <<bound, made>>

(***************************************************************************)
(* The backend calls a dispatch invokes, as hist[c].log records them.  A   *)
(* call made through a handle runs on the stream the handle is bound to.   *)
(***************************************************************************)
OpBufferSize(h, m, n) ==
  [op |-> "bufferSize", handle |-> h, stream |-> bound["solver"][h], m |-> m, n |-> n]

OpMemcpy(s, bytes) ==
  [op |-> "memcpy", stream |-> s, dst |-> "out", src |-> "a", bytes |-> bytes]

OpRun(h, m, n, a, lwork, ipiv, info) ==
  [op |-> "getrf", handle |-> h, stream |-> bound["solver"][h], m |-> m, n |-> n,
   buf |-> "out", a |-> a, lda |-> m, lwork |-> lwork, ipiv |-> ipiv, info |-> info]

OpMakeBatchPointers(s, batch, stride) ==
  [op |-> "makeBatchPointers", stream |-> s, buffer |-> "out",
   dev_ptrs |-> "workspace", batch |-> batch, stride |-> stride]

OpBatchedRun(h, n, lda, batch) ==
  [op |-> "getrfBatched", handle |-> h, stream |-> bound["blas"][h], n |-> n,
   a |-> "workspace", lda |-> lda, ipiv |-> 0, info |-> 0, batch |-> batch]

\* the pointer array MakeBatchPointersAsync writes for a buffer at byte
\* address buffer: slot i holds buffer + i * stride
BatchPointers(buffer, batch, stride) ==
  [i \in 0..(batch - 1) |-> buffer + i * stride]

\* the calls that put work on the device
DeviceOps == {"memcpy", "makeBatchPointers", "getrf", "getrfBatched"}

\* the outcomes of GetrfKernel<T>::BufferSize
Lworks == 0..MaxLwork

\* the matrices a batched factorization may report a non-zero info code for
BadChoices(batch) ==
  IF batch <= MaxBatch THEN SUBSET (0..(batch - 1)) ELSE {{}, {0}, {batch - 1}}

(***************************************************************************)
(* Statement-level helpers.                                                *)
(***************************************************************************)
\* return an error: the code, and what failed
ReturnError(c, code, why, h) ==
  /\ pc' = [pc EXCEPT ![c] = "exit"]
  /\ res' = [res EXCEPT ![c] = code]
  /\ hist' = [hist EXCEPT ![c] = [h EXCEPT !.fail = why]]

Logged(h, op) == [h EXCEPT !.log = Append(@, op)]

(***************************************************************************)
(* The entry point: the runtime invokes the handler GetrfFfi with a        *)
(* stream, a scratch allocator and the buffers.                            *)
(***************************************************************************)
Call(c, a) ==
  /\ pc[c] = "idle"
  /\ pc' = [pc EXCEPT ![c] = "types"]
  /\ arg' = [arg EXCEPT ![c] = a]
  /\ UNCHANGED <<loc, res, hist, poolVars>>

GetrfFfi(c) == pc[c] = "idle" /\ \E a \in Args : Call(c, a)

GetrfFfiConc(c) == pc[c] = "idle" /\ \E a \in ConcArgs : Call(c, a)

(***************************************************************************)
(* GetrfDispatch                                                           *)
(***************************************************************************)
\* GetrfDispatchTypes without the comparison of the element types
GetrfDispatchTypesUnchecked(c) ==
  /\ pc[c] = "types"
  /\ pc' = [pc EXCEPT ![c] = "split"]
  /\ UNCHANGED <<arg, loc, res, hist, poolVars>>

\* if (dataType != out->element_type()) return InvalidArgument
GetrfDispatchTypes(c) ==
  /\ pc[c] = "types"
  /\ IF arg[c].inType # arg[c].outType
       THEN ReturnError(c, "InvalidArgument", "types", hist[c])
       ELSE /\ pc' = [pc EXCEPT ![c] = "split"]
            /\ UNCHANGED <<res, hist>>
  /\ UNCHANGED <<arg, loc, poolVars>>

\* FFI_ASSIGN_OR_RETURN((auto [batch, rows, cols]), SplitBatch2D(a.dimensions()))
GetrfDispatchSplit(c) ==
  /\ pc[c] = "split"
  /\ LET r == SplitBatch2D(arg[c].dims)
     IN  IF r.ok
           THEN /\ loc' = [loc EXCEPT ![c].batch = r.batch, ![c].rows = r.rows,
                                      ![c].cols = r.cols]
                /\ pc' = [pc EXCEPT ![c] = "select"]
                /\ UNCHANGED <<res, hist>>
           ELSE /\ ReturnError(c, r.code, "shape", hist[c])
                /\ UNCHANGED loc
  /\ UNCHANGED <<arg, poolVars>>

\* UseBatched with the threshold itself excluded (<), to show that the
\* selection property depends on the comparison
UseBatchedBelowThreshold(batch, rows, cols) ==
  batch > 1 /\ rows = cols /\ rows \div batch < BatchedThreshold

\* batch > 1 && rows == cols && rows / batch <= 128
UseBatched(batch, rows, cols) ==
  batch > 1 /\ rows = cols /\ rows \div batch <= BatchedThreshold

\* GetrfDispatchSelect without the test of the element type: every type
\* enters the strategy its shape selects
GetrfDispatchSelectAnyType(c) ==
  /\ pc[c] = "select"
  /\ IF UseBatched(loc[c].batch, loc[c].rows, loc[c].cols)
       THEN /\ pc' = [pc EXCEPT ![c] = "b_cast"]
            /\ hist' = [hist EXCEPT ![c].path = "batched"]
       ELSE /\ pc' = [pc EXCEPT ![c] = "l_cast"]
            /\ hist' = [hist EXCEPT ![c].path = "looped"]
  /\ UNCHANGED <<arg, loc, res, poolVars>>

\* the strategy, then the element type; no branch for the type: InvalidArgument
GetrfDispatchSelect(c) ==
  /\ pc[c] = "select"
  /\ IF UseBatched(loc[c].batch, loc[c].rows, loc[c].cols)
       THEN IF arg[c].inType \in Supported
              THEN /\ pc' = [pc EXCEPT ![c] = "b_cast"]
                   /\ hist' = [hist EXCEPT ![c].path = "batched"]
                   /\ UNCHANGED res
              ELSE ReturnError(c, "InvalidArgument", "dtype", hist[c])
       ELSE IF arg[c].inType \in Supported
              THEN /\ pc' = [pc EXCEPT ![c] = "l_cast"]
                   /\ hist' = [hist EXCEPT ![c].path = "looped"]
                   /\ UNCHANGED res
              ELSE ReturnError(c, "InvalidArgument", "dtype", hist[c])
  /\ UNCHANGED <<arg, loc, poolVars>>

\* Exit with the handle given back on the success path only
ExitLeakOnError(c) ==
  /\ pc[c] = "exit"
  /\ pc' = [pc EXCEPT ![c] = "done"]
  /\ IF loc[c].handle # 0 /\ res[c] = "Success"
       THEN PoolReturn(loc[c].pool, loc[c].handle)
       ELSE UNCHANGED poolVars
  /\ loc' = [loc EXCEPT ![c] = LocInit]
  /\ UNCHANGED <<arg, res, hist>>

\* the call returns: its locals die, a Handle among them returns its handle
Exit(c) ==
  /\ pc[c] = "exit"
  /\ pc' = [pc EXCEPT ![c] = "done"]
  /\ IF loc[c].handle # 0
       THEN PoolReturn(loc[c].pool, loc[c].handle)
       ELSE UNCHANGED poolVars
  /\ loc' = [loc EXCEPT ![c] = LocInit]
  /\ UNCHANGED <<arg, res, hist>>

\* the caller has the result and is free to dispatch again
Returned(c) ==
  /\ pc[c] = "done"
  /\ pc' = [pc EXCEPT ![c] = "idle"]
  /\ arg' = [arg EXCEPT ![c] = ArgInit]
  /\ res' = [res EXCEPT ![c] = "none"]
  /\ hist' = [hist EXCEPT ![c] = HistInit]
  /\ UNCHANGED <<loc, poolVars>>

(***************************************************************************)
(* GetrfImpl<T>: the looped strategy                                       *)
(***************************************************************************)
\* GetrfImplCast with cols narrowed by a plain cast: only rows is checked
GetrfImplCastRowsOnly(c) ==
  /\ pc[c] = "l_cast"
  /\ LET m == MaybeCastNoOverflow(loc[c].rows)
     IN  IF ~m.ok
           THEN ReturnError(c, m.code, "overflow", hist[c]) /\ UNCHANGED loc
           ELSE /\ loc' = [loc EXCEPT ![c].m = m.value, ![c].n = WrapInt(loc[c].cols)]
                /\ pc' = [pc EXCEPT ![c] = "l_borrow"]
                /\ UNCHANGED <<res, hist>>
  /\ UNCHANGED <<arg, poolVars>>

\* FFI_ASSIGN_OR_RETURN(auto m, MaybeCastNoOverflow<int>(rows)); the same for n
GetrfImplCast(c) ==
  /\ pc[c] = "l_cast"
  /\ LET m == MaybeCastNoOverflow(loc[c].rows)
         n == MaybeCastNoOverflow(loc[c].cols)
     IN  IF ~m.ok
           THEN ReturnError(c, m.code, "overflow", hist[c]) /\ UNCHANGED loc
         ELSE IF ~n.ok
           THEN ReturnError(c, n.code, "overflow", hist[c]) /\ UNCHANGED loc
         ELSE /\ loc' = [loc EXCEPT ![c].m = m.value, ![c].n = n.value]
              /\ pc' = [pc EXCEPT ![c] = "l_borrow"]
              /\ UNCHANGED <<res, hist>>
  /\ UNCHANGED <<arg, poolVars>>

\* GetrfImplBorrow with the handle borrowed for stream 1, not the caller's stream
GetrfImplBorrowFixedStream(c) ==
  /\ pc[c] = "l_borrow"
  /\ \E h \in BorrowOutcomes("solver", 1) :
       IF h = 0
         THEN /\ ReturnError(c, BackendErrorCode, "handle", hist[c])
              /\ UNCHANGED <<loc, poolVars>>
         ELSE /\ PoolBorrow("solver", c, 1, h)
              /\ loc' = [loc EXCEPT ![c].handle = h, ![c].pool = "solver"]
              /\ hist' = [hist EXCEPT ![c].borrows = Append(@, <<"solver", h>>)]
              /\ pc' = [pc EXCEPT ![c] = "l_query"]
              /\ UNCHANGED res
  /\ UNCHANGED arg

\* FFI_ASSIGN_OR_RETURN(auto handle, SolverHandlePool::Borrow(stream))
GetrfImplBorrow(c) ==
  /\ pc[c] = "l_borrow"
  /\ \E h \in BorrowOutcomes("solver", arg[c].stream) :
       IF h = 0
         THEN /\ ReturnError(c, BackendErrorCode, "handle", hist[c])
              /\ UNCHANGED <<loc, poolVars>>
         ELSE /\ PoolBorrow("solver", c, arg[c].stream, h)
              /\ loc' = [loc EXCEPT ![c].handle = h, ![c].pool = "solver"]
              /\ hist' = [hist EXCEPT ![c].borrows = Append(@, <<"solver", h>>)]
              /\ pc' = [pc EXCEPT ![c] = "l_query"]
              /\ UNCHANGED res
  /\ UNCHANGED arg

\* FFI_ASSIGN_OR_RETURN(int lwork, GetrfKernel<T>::BufferSize(handle.get(), m, n))
GetrfImplBufferSize(c) ==
  /\ pc[c] = "l_query"
  /\ LET h == Logged(hist[c], OpBufferSize(loc[c].handle, loc[c].m, loc[c].n))
     IN  \E ok \in BOOLEAN :
           IF ok
             THEN \E lwork \in Lworks :
                    /\ loc' = [loc EXCEPT ![c].lwork = lwork]
                    /\ hist' = [hist EXCEPT ![c] = h]
                    /\ pc' = [pc EXCEPT ![c] = "l_alloc"]
                    /\ UNCHANGED res
             ELSE ReturnError(c, BackendErrorCode, "query", h) /\ UNCHANGED loc
  /\ UNCHANGED <<arg, poolVars>>

\* GetrfImplAllocate without the return: an empty allocation is noticed and
\* the function goes on
GetrfImplAllocateNoReturn(c) ==
  /\ pc[c] = "l_alloc"
  /\ LET h == [hist[c] EXCEPT !.allocs = Append(@, SizeOf(arg[c].inType) * loc[c].lwork)]
     IN  \E has_value \in BOOLEAN :
           /\ loc' = [loc EXCEPT ![c].workspace = has_value]
           /\ hist' = [hist EXCEPT ![c] =
                         IF has_value THEN h ELSE [h EXCEPT !.fail = "scratch"]]
           /\ res' = [res EXCEPT ![c] = IF has_value THEN @ ELSE "Unknown"]
           /\ pc' = [pc EXCEPT ![c] = "l_copy"]
  /\ UNCHANGED <<arg, poolVars>>

\* GetrfImplAllocate asking again after an empty allocation
GetrfImplAllocateRetry(c) ==
  /\ pc[c] = "l_alloc"
  /\ LET h == [hist[c] EXCEPT !.allocs = Append(@, SizeOf(arg[c].inType) * loc[c].lwork)]
     IN  \E has_value \in BOOLEAN :
           /\ loc' = [loc EXCEPT ![c].workspace = has_value]
           /\ hist' = [hist EXCEPT ![c] = h]
           /\ pc' = [pc EXCEPT ![c] = IF has_value THEN "l_copy" ELSE "l_alloc"]
           /\ UNCHANGED res
  /\ UNCHANGED <<arg, poolVars>>

\* scratch.Allocate(sizeof(T) * lwork); empty: return kUnknown
GetrfImplAllocate(c) ==
  /\ pc[c] = "l_alloc"
  /\ LET h == [hist[c] EXCEPT !.allocs = Append(@, SizeOf(arg[c].inType) * loc[c].lwork)]
     IN  \E has_value \in BOOLEAN :
           IF has_value
             THEN /\ loc' = [loc EXCEPT ![c].workspace = TRUE]
                  /\ hist' = [hist EXCEPT ![c] = h]
                  /\ pc' = [pc EXCEPT ![c] = "l_copy"]
                  /\ UNCHANGED res
             ELSE ReturnError(c, "Unknown", "scratch", h) /\ UNCHANGED loc
  /\ UNCHANGED <<arg, poolVars>>

\* GetrfImplMemcpy with the status of the copy dropped: a failed copy is
\* followed by the loop
GetrfImplMemcpyStatusDropped(c) ==
  /\ pc[c] = "l_copy"
  /\ IF arg[c].aliased
       THEN /\ pc' = [pc EXCEPT ![c] = "l_loop"]
            /\ UNCHANGED <<res, hist>>
       ELSE LET bytes == SizeOf(arg[c].inType) * loc[c].batch * loc[c].rows * loc[c].cols
                h == Logged(hist[c], OpMemcpy(arg[c].stream, bytes))
            IN  \E ok \in BOOLEAN :
                  /\ pc' = [pc EXCEPT ![c] = "l_loop"]
                  /\ hist' = [hist EXCEPT ![c] =
                                IF ok THEN h ELSE [h EXCEPT !.fail = "copy"]]
                  /\ UNCHANGED res
  /\ UNCHANGED <<arg, loc, poolVars>>

\* if (a_data != out_data) gpuMemcpyAsync(out_data, a_data, sizeof(T)*batch*rows*cols)
GetrfImplMemcpy(c) ==
  /\ pc[c] = "l_copy"
  /\ IF arg[c].aliased
       THEN /\ pc' = [pc EXCEPT ![c] = "l_loop"]
            /\ UNCHANGED <<res, hist>>
       ELSE LET bytes == SizeOf(arg[c].inType) * loc[c].batch * loc[c].rows * loc[c].cols
                h == Logged(hist[c], OpMemcpy(arg[c].stream, bytes))
            IN  \E ok \in BOOLEAN :
                  IF ok
                    THEN /\ pc' = [pc EXCEPT ![c] = "l_loop"]
                         /\ hist' = [hist EXCEPT ![c] = h]
                         /\ UNCHANGED res
                    ELSE ReturnError(c, BackendErrorCode, "copy", h)
  /\ UNCHANGED <<arg, loc, poolVars>>

\* LoopCond with the last matrix left out (i < batch - 1)
LoopCondOffByOne(i, batch) == i < batch - 1

\* the condition of for (int i = 0; i < batch; ++i)
LoopCond(i, batch) == i < batch

\* GetrfImplRun with a non-zero info code taken for a failure of the dispatch
GetrfImplRunInfoIsError(c) ==
  /\ pc[c] = "l_loop"
  /\ LoopCond(loc[c].i, loc[c].batch)
  /\ LET l == loc[c]
         h == Logged(hist[c], OpRun(l.handle, l.m, l.n, l.out_data, l.lwork,
                                     l.ipiv_data, l.info_data))
     IN  \E ok \in BOOLEAN :
           IF ok
             THEN \E info \in {0, 1}, step \in IntArith(l.m * l.n), i \in IntArith(l.i + 1) :
                    IF info = 0
                      THEN /\ loc' = [loc EXCEPT ![c].out_data = @ + step,
                                                 ![c].ipiv_data = @ + Min(l.m, l.n),
                                                 ![c].info_data = @ + 1,
                                                 ![c].i = i]
                           /\ hist' = [hist EXCEPT ![c] = [h EXCEPT !.nfact = @ + 1]]
                           /\ UNCHANGED <<pc, res>>
                      ELSE /\ ReturnError(c, "Unknown", "info",
                                          [h EXCEPT !.nfact = @ + 1,
                                                    !.bad = @ \cup {l.info_data}])
                           /\ UNCHANGED loc
             ELSE ReturnError(c, BackendErrorCode, "getrf", h) /\ UNCHANGED loc
  /\ UNCHANGED <<arg, poolVars>>

\* one iteration of for (int i = 0; i < batch; ++i): Run on the matrix at the
\* cursors, then the cursors advance by m * n, min(m, n) and 1
GetrfImplRun(c) ==
  /\ pc[c] = "l_loop"
  /\ LoopCond(loc[c].i, loc[c].batch)
  /\ LET l == loc[c]
         h == Logged(hist[c], OpRun(l.handle, l.m, l.n, l.out_data, l.lwork,
                                     l.ipiv_data, l.info_data))
     IN  \E ok \in BOOLEAN :
           IF ok
             THEN \E info \in {0, 1}, step \in IntArith(l.m * l.n), i \in IntArith(l.i + 1) :
                    /\ loc' = [loc EXCEPT ![c].out_data = @ + step,
                                          ![c].ipiv_data = @ + Min(l.m, l.n),
                                          ![c].info_data = @ + 1,
                                          ![c].i = i]
                    /\ hist' = [hist EXCEPT ![c] =
                                  [h EXCEPT !.nfact = @ + 1,
                                            !.bad = IF info = 0 THEN @
                                                    ELSE @ \cup {l.info_data}]]
                    /\ UNCHANGED <<pc, res>>
             ELSE ReturnError(c, BackendErrorCode, "getrf", h) /\ UNCHANGED loc
  /\ UNCHANGED <<arg, poolVars>>

\* return ffi::Error::Success()
GetrfImplSuccess(c) ==
  /\ pc[c] = "l_loop"
  /\ ~LoopCond(loc[c].i, loc[c].batch)
  /\ pc' = [pc EXCEPT ![c] = "exit"]
  /\ res' = [res EXCEPT ![c] = "Success"]
  /\ UNCHANGED <<arg, loc, hist, poolVars>>

(***************************************************************************)
(* GetrfBatchedImpl<T>: the batched strategy                               *)
(***************************************************************************)
\* FFI_ASSIGN_OR_RETURN(auto n, MaybeCastNoOverflow<int>(cols))
GetrfBatchedImplCast(c) ==
  /\ pc[c] = "b_cast"
  /\ LET n == MaybeCastNoOverflow(loc[c].cols)
     IN  IF ~n.ok
           THEN ReturnError(c, n.code, "overflow", hist[c]) /\ UNCHANGED loc
           ELSE /\ loc' = [loc EXCEPT ![c].n = n.value]
                /\ pc' = [pc EXCEPT ![c] = "b_borrow"]
                /\ UNCHANGED <<res, hist>>
  /\ UNCHANGED <<arg, poolVars>>

\* GetrfBatchedImplBorrow borrowing from the pool of the looped strategy
GetrfBatchedImplBorrowSolverPool(c) ==
  /\ pc[c] = "b_borrow"
  /\ \E h \in BorrowOutcomes("solver", arg[c].stream) :
       IF h = 0
         THEN /\ ReturnError(c, BackendErrorCode, "handle", hist[c])
              /\ UNCHANGED <<loc, poolVars>>
         ELSE /\ PoolBorrow("solver", c, arg[c].stream, h)
              /\ loc' = [loc EXCEPT ![c].handle = h, ![c].pool = "solver"]
              /\ hist' = [hist EXCEPT ![c].borrows = Append(@, <<"solver", h>>)]
              /\ pc' = [pc EXCEPT ![c] = "b_alloc"]
              /\ UNCHANGED res
  /\ UNCHANGED arg

\* FFI_ASSIGN_OR_RETURN(auto handle, BlasHandlePool::Borrow(stream))
GetrfBatchedImplBorrow(c) ==
  /\ pc[c] = "b_borrow"
  /\ \E h \in BorrowOutcomes("blas", arg[c].stream) :
       IF h = 0
         THEN /\ ReturnError(c, BackendErrorCode, "handle", hist[c])
              /\ UNCHANGED <<loc, poolVars>>
         ELSE /\ PoolBorrow("blas", c, arg[c].stream, h)
              /\ loc' = [loc EXCEPT ![c].handle = h, ![c].pool = "blas"]
              /\ hist' = [hist EXCEPT ![c].borrows = Append(@, <<"blas", h>>)]
              /\ pc' = [pc EXCEPT ![c] = "b_alloc"]
              /\ UNCHANGED res
  /\ UNCHANGED arg

\* GetrfBatchedImplAllocate with the failure reported as ResourceExhausted
GetrfBatchedImplAllocateOtherCode(c) ==
  /\ pc[c] = "b_alloc"
  /\ LET h == [hist[c] EXCEPT !.allocs = Append(@, SizeofVoidPtr * loc[c].batch)]
     IN  \E has_value \in BOOLEAN :
           IF has_value
             THEN /\ loc' = [loc EXCEPT ![c].workspace = TRUE]
                  /\ hist' = [hist EXCEPT ![c] = h]
                  /\ pc' = [pc EXCEPT ![c] = "b_copy"]
                  /\ UNCHANGED res
             ELSE ReturnError(c, "ResourceExhausted", "scratch", h) /\ UNCHANGED loc
  /\ UNCHANGED <<arg, poolVars>>

\* scratch.Allocate(sizeof(void*) * batch); empty: return kUnknown
GetrfBatchedImplAllocate(c) ==
  /\ pc[c] = "b_alloc"
  /\ LET h == [hist[c] EXCEPT !.allocs = Append(@, SizeofVoidPtr * loc[c].batch)]
     IN  \E has_value \in BOOLEAN :
           IF has_value
             THEN /\ loc' = [loc EXCEPT ![c].workspace = TRUE]
                  /\ hist' = [hist EXCEPT ![c] = h]
                  /\ pc' = [pc EXCEPT ![c] = "b_copy"]
                  /\ UNCHANGED res
             ELSE ReturnError(c, "Unknown", "scratch", h) /\ UNCHANGED loc
  /\ UNCHANGED <<arg, poolVars>>

\* GetrfBatchedImplMemcpy with the size of one matrix (sizeof(T)*cols*cols)
GetrfBatchedImplMemcpyOneMatrix(c) ==
  /\ pc[c] = "b_copy"
  /\ IF arg[c].aliased
       THEN /\ pc' = [pc EXCEPT ![c] = "b_build"]
            /\ UNCHANGED <<res, hist>>
       ELSE LET bytes == SizeOf(arg[c].inType) * loc[c].cols * loc[c].cols
                h == Logged(hist[c], OpMemcpy(arg[c].stream, bytes))
            IN  \E ok \in BOOLEAN :
                  IF ok
                    THEN /\ pc' = [pc EXCEPT ![c] = "b_build"]
                         /\ hist' = [hist EXCEPT ![c] = h]
                         /\ UNCHANGED res
                    ELSE ReturnError(c, BackendErrorCode, "copy", h)
  /\ UNCHANGED <<arg, loc, poolVars>>

\* if (a_data != out_data) gpuMemcpyAsync(out_data, a_data, sizeof(T)*batch*cols*cols)
GetrfBatchedImplMemcpy(c) ==
  /\ pc[c] = "b_copy"
  /\ IF arg[c].aliased
       THEN /\ pc' = [pc EXCEPT ![c] = "b_build"]
            /\ UNCHANGED <<res, hist>>
       ELSE LET bytes == SizeOf(arg[c].inType) * loc[c].batch * loc[c].cols * loc[c].cols
                h == Logged(hist[c], OpMemcpy(arg[c].stream, bytes))
            IN  \E ok \in BOOLEAN :
                  IF ok
                    THEN /\ pc' = [pc EXCEPT ![c] = "b_build"]
                         /\ hist' = [hist EXCEPT ![c] = h]
                         /\ UNCHANGED res
                    ELSE ReturnError(c, BackendErrorCode, "copy", h)
  /\ UNCHANGED <<arg, loc, poolVars>>

\* GetrfBatchedImplMakeBatchPointers with the stride of one row (sizeof(T) * n)
GetrfBatchedImplMakeBatchPointersRowStride(c) ==
  /\ pc[c] = "b_build"
  /\ hist' = [hist EXCEPT ![c] =
                Logged(@, OpMakeBatchPointers(arg[c].stream, loc[c].batch,
                                              SizeOf(arg[c].inType) * loc[c].n))]
  /\ pc' = [pc EXCEPT ![c] = "b_check"]
  /\ UNCHANGED <<arg, loc, res, poolVars>>

\* MakeBatchPointersAsync(stream, out_data, workspace, batch, sizeof(T) * n * n)
GetrfBatchedImplMakeBatchPointers(c) ==
  /\ pc[c] = "b_build"
  /\ hist' = [hist EXCEPT ![c] =
                Logged(@, OpMakeBatchPointers(arg[c].stream, loc[c].batch,
                                              SizeOf(arg[c].inType) * loc[c].n * loc[c].n))]
  /\ pc' = [pc EXCEPT ![c] = "b_check"]
  /\ UNCHANGED <<arg, loc, res, poolVars>>

\* GetrfBatchedImplGetLastError with the status dropped: after a launch
\* error the function goes on
GetrfBatchedImplGetLastErrorIgnored(c) ==
  /\ pc[c] = "b_check"
  /\ \E ok \in BOOLEAN :
       /\ pc' = [pc EXCEPT ![c] = "b_run"]
       /\ hist' = [hist EXCEPT ![c].fail = IF ok THEN @ ELSE "launch"]
       /\ UNCHANGED res
  /\ UNCHANGED <<arg, loc, poolVars>>

\* FFI_RETURN_IF_ERROR_STATUS(JAX_AS_STATUS(gpuGetLastError()))
GetrfBatchedImplGetLastError(c) ==
  /\ pc[c] = "b_check"
  /\ \E ok \in BOOLEAN :
       IF ok
         THEN /\ pc' = [pc EXCEPT ![c] = "b_run"]
              /\ UNCHANGED <<res, hist>>
         ELSE ReturnError(c, BackendErrorCode, "launch", hist[c])
  /\ UNCHANGED <<arg, loc, poolVars>>

\* GetrfBatchedKernel<T>::Run(handle.get(), n, batch_ptrs, n, ipiv_data, info_data,
\* batch): the parameter batch is an int, the argument an int64_t
GetrfBatchedImplRun(c) ==
  /\ pc[c] = "b_run"
  /\ LET l == loc[c]
         batch == WrapInt(l.batch)
         h == Logged(hist[c], OpBatchedRun(l.handle, l.n, l.n, batch))
     IN  \E ok \in BOOLEAN :
           IF ok
             THEN \E bad \in BadChoices(batch) :
                    /\ hist' = [hist EXCEPT ![c] =
                                  [h EXCEPT !.nfact = IF batch > 0 THEN batch ELSE 0,
                                            !.bad = bad]]
                    /\ pc' = [pc EXCEPT ![c] = "b_done"]
                    /\ UNCHANGED res
             ELSE ReturnError(c, BackendErrorCode, "getrf", h)
  /\ UNCHANGED <<arg, loc, poolVars>>

\* return ffi::Error::Success()
GetrfBatchedImplSuccess(c) ==
  /\ pc[c] = "b_done"
  /\ pc' = [pc EXCEPT ![c] = "exit"]
  /\ res' = [res EXCEPT ![c] = "Success"]
  /\ UNCHANGED <<arg, loc, hist, poolVars>>

(***************************************************************************)
(* The statements of a dispatch call, and the specifications.              *)
(***************************************************************************)
Step(c) ==
  \/ GetrfDispatchTypes(c)
  \/ GetrfDispatchSplit(c)
  \/ GetrfDispatchSelect(c)
  \/ GetrfImplCast(c)
  \/ GetrfImplBorrow(c)
  \/ GetrfImplBufferSize(c)
  \/ GetrfImplAllocate(c)
  \/ GetrfImplMemcpy(c)
  \/ GetrfImplRun(c)
  \/ GetrfImplSuccess(c)
  \/ GetrfBatchedImplCast(c)
  \/ GetrfBatchedImplBorrow(c)
  \/ GetrfBatchedImplAllocate(c)
  \/ GetrfBatchedImplMemcpy(c)
  \/ GetrfBatchedImplMakeBatchPointers(c)
  \/ GetrfBatchedImplGetLastError(c)
  \/ GetrfBatchedImplRun(c)
  \/ GetrfBatchedImplSuccess(c)
  \/ Exit(c)
  \/ Returned(c)

\* one caller: dispatch calls one after another, over all the inputs
Next == GetrfFfi(1) \/ Step(1)

Spec == Init /\ [][Next]_vars

\* concurrent callers: the dispatch calls of all the callers interleave
NextConc == \E c \in Calls : GetrfFfiConc(c) \/ Step(c)

SpecConc == Init /\ [][NextConc]_vars

(***************************************************************************)
(* What the properties below speak of.                                     *)
(***************************************************************************)
\* the shape of the input of call c, as the dispatch decomposes it
ShapeOf(c) == SplitBatch2D(arg[c].dims)

\* call c has returned, or is about to
Returning(c) == pc[c] \in {"exit", "done"}

\* call c is past the choice of the strategy
Dispatched(c) == pc[c] \notin {"idle", "types", "split", "select"}

\* the calls of a log that put work on the device, in order
DeviceOpsOf(log) == SelectSeq(log, LAMBDA o : o.op \in DeviceOps)

DeviceLog(c) == DeviceOpsOf(hist[c].log)

IsPrefix(s, t) == Len(s) <= Len(t) /\ SubSeq(t, 1, Len(s)) = s

\* call c has issued nothing: no backend call, no borrow, no allocation
NothingIssued(c) ==
  hist[c].log = <<>> /\ hist[c].borrows = <<>> /\ hist[c].allocs = <<>>

ValidationFailures == {"types", "shape", "dtype", "overflow"}
BackendFailures == {"handle", "query", "copy", "launch", "getrf"}
RuntimeFailures == BackendFailures \cup {"scratch"}

(***************************************************************************)
(* C1.  For every input that passes validation (equal and supported        *)
(* element types, a shape that decomposes into batch, rows, cols), the     *)
(* dispatch enters GetrfBatchedImpl if and only if batch > 1, rows = cols  *)
(* and the integer quotient rows / batch is at most 128, and GetrfImpl     *)
(* otherwise.  Whatever the input, the batched strategy is never entered   *)
(* for a non-square matrix or a batch of one.                              *)
(***************************************************************************)
C1_StrategySelection ==
  \A c \in Calls :
    LET s == ShapeOf(c)
    IN  /\ (Dispatched(c) /\ hist[c].path # "none") =>
             /\ s.ok /\ arg[c].inType = arg[c].outType /\ arg[c].inType \in Supported
             /\ hist[c].path = "batched" <=>
                  (s.batch > 1 /\ s.rows = s.cols /\ s.rows \div s.batch <= 128)
             /\ hist[c].path = "looped" <=>
                  ~(s.batch > 1 /\ s.rows = s.cols /\ s.rows \div s.batch <= 128)
        /\ (pc[c] = "done" /\ s.ok /\ arg[c].inType = arg[c].outType
              /\ arg[c].inType \in Supported) => hist[c].path # "none"
        /\ hist[c].path = "batched" => (s.batch > 1 /\ s.rows = s.cols)

\* a batched dispatch of square matrices exactly at the threshold has returned
C1_Witness ==
  \E c \in Calls :
    /\ pc[c] = "done" /\ hist[c].path = "batched" /\ res[c] = "Success"
    /\ ShapeOf(c).rows \div ShapeOf(c).batch = 128

(***************************************************************************)
(* C2, as claimed.  When the scratch allocation fails the dispatch returns *)
(* Unknown and the call has invoked, and will invoke, no backend call of   *)
(* any kind: no workspace-size query, no copy, no pointer-array build, no  *)
(* factorization.                                                          *)
(***************************************************************************)
C2_NoBackendCallAtAll ==
  \A c \in Calls :
    hist[c].fail = "scratch" =>
      /\ Returning(c) => res[c] = "Unknown"
      /\ hist[c].log = <<>>

(***************************************************************************)
(* C2, amended.  When the scratch allocation fails the dispatch returns    *)
(* Unknown and the call has put, and will put, no work on the device (no   *)
(* copy, no pointer-array build, no factorization).  The batched strategy  *)
(* has then made no backend call at all; the looped strategy has made      *)
(* exactly one, the workspace-size query whose result is the size of the   *)
(* allocation.                                                             *)
(***************************************************************************)
C2_ScratchFailureIssuesNoDeviceWork ==
  \A c \in Calls :
    hist[c].fail = "scratch" =>
      /\ Returning(c) /\ res[c] = "Unknown"
      /\ DeviceLog(c) = <<>>
      /\ hist[c].path = "batched" => hist[c].log = <<>>
      /\ hist[c].path = "looped" =>
           /\ Len(hist[c].log) = 1
           /\ hist[c].log[1].op = "bufferSize"
      /\ Len(hist[c].allocs) = 1

\* a looped dispatch has returned after its scratch allocation failed
C2_Witness ==
  \E c \in Calls :
    /\ pc[c] = "done" /\ hist[c].fail = "scratch" /\ hist[c].path = "looped"
    /\ ~arg[c].aliased /\ ShapeOf(c).batch >= 2

(***************************************************************************)
(* C3, as claimed.  Every dispatch call that has passed validation and     *)
(* does not fail by a handle-pool or a scratch-allocation failure issues   *)
(* a factorization covering each of the batch_count matrices.              *)
(***************************************************************************)
C3_AllMatricesUnlessHandleOrScratch ==
  \A c \in Calls :
    (pc[c] = "done" /\ hist[c].path # "none"
       /\ hist[c].fail \notin {"overflow", "handle", "scratch"}) =>
      hist[c].nfact = ShapeOf(c).batch

(***************************************************************************)
(* C3, amended.  Every dispatch call that returns success, for a           *)
(* batch_count within the range of int, has issued a factorization         *)
(* covering each of the batch_count matrices (the looped strategy one Run  *)
(* per matrix, at info entries 0 .. batch_count - 1; the batched strategy  *)
(* one call for batch_count matrices), whatever info codes the matrices    *)
(* report.  A call that fails by a handle-pool or a scratch-allocation     *)
(* failure has issued no per-matrix work (no copy, no factorization).  A   *)
(* failed workspace query, copy or launch check ends the dispatch before   *)
(* any factorization, and a failed factorization call ends it with that    *)
(* matrix and the remaining ones unprocessed.                              *)
(***************************************************************************)
C3_SuccessCoversEveryMatrix ==
  \A c \in Calls :
    LET batch == ShapeOf(c).batch
        runs == SelectSeq(hist[c].log, LAMBDA o : o.op = "getrf")
        batched == SelectSeq(hist[c].log, LAMBDA o : o.op = "getrfBatched")
    IN  /\ (Returning(c) /\ res[c] = "Success" /\ batch <= 2^(IntBits - 1) - 1) =>
             /\ hist[c].nfact = batch
             /\ hist[c].path = "looped" =>
                  /\ Len(runs) = batch
                  /\ \A k \in 1..Len(runs) : runs[k].info = k - 1
             /\ hist[c].path = "batched" =>
                  /\ Len(batched) = 1
                  /\ batched[1].batch = batch
        /\ hist[c].fail \in {"handle", "scratch"} =>
             /\ Returning(c) /\ res[c] # "Success"
             /\ DeviceLog(c) = <<>>
        /\ (Returning(c) /\ hist[c].fail \in {"query", "copy", "launch"}) =>
             /\ res[c] # "Success"
             /\ hist[c].nfact = 0 /\ runs = <<>> /\ batched = <<>>
        /\ (Returning(c) /\ hist[c].fail = "getrf") =>
             /\ res[c] # "Success"
             /\ hist[c].nfact < batch

\* a batched dispatch of several matrices has returned success although some
\* matrix reported a non-zero info code
C3_Witness ==
  \E c \in Calls :
    /\ pc[c] = "done" /\ res[c] = "Success" /\ hist[c].path = "batched"
    /\ hist[c].nfact = ShapeOf(c).batch /\ ShapeOf(c).batch >= 2
    /\ hist[c].bad # {}

(***************************************************************************)
(* C4.  A dispatch whose input and output element types differ returns     *)
(* InvalidArgument, and it goes no further than the comparison: whatever   *)
(* its shape, it never makes a backend call, borrows a handle or allocates *)
(* scratch.                                                                *)
(***************************************************************************)
C4_TypeMismatchBeforeAnyWork ==
  \A c \in Calls :
    (pc[c] # "idle" /\ arg[c].inType # arg[c].outType) =>
      /\ NothingIssued(c)
      /\ pc[c] \in {"types", "exit", "done"}
      /\ Returning(c) => res[c] = "InvalidArgument"

\* a dispatch with differing element types and a decomposable shape has returned
C4_Witness ==
  \E c \in Calls :
    /\ pc[c] = "done" /\ arg[c].inType # arg[c].outType
    /\ ShapeOf(c).ok /\ ShapeOf(c).batch >= 2 /\ arg[c].inType \in Supported

(***************************************************************************)
(* C5.  A dispatch whose rows or cols lies outside the range of int        *)
(* returns InvalidArgument on whichever strategy the shape selects, and    *)
(* never borrows a handle, allocates scratch or makes a backend call.      *)
(***************************************************************************)
C5_DimensionOverflow ==
  \A c \in Calls :
    LET s == ShapeOf(c)
    IN  (pc[c] # "idle" /\ s.ok
           /\ (s.rows > 2^(IntBits - 1) - 1 \/ s.cols > 2^(IntBits - 1) - 1)) =>
          /\ NothingIssued(c)
          /\ loc[c].handle = 0
          /\ Returning(c) => res[c] = "InvalidArgument"

\* a dispatch that chose the batched strategy has returned on the failed cast
C5_Witness ==
  \E c \in Calls :
    /\ pc[c] = "done" /\ hist[c].path = "batched" /\ res[c] = "InvalidArgument"
    /\ ShapeOf(c).cols > 2^(IntBits - 1) - 1

(***************************************************************************)
(* C6.  Once a dispatch call has returned, by whatever path (success, a    *)
(* failed workspace query, scratch allocation, copy, launch check or       *)
(* factorization call), no handle of either pool is checked out by it.     *)
(***************************************************************************)
C6_HandleReturnedOnEveryExit ==
  \A c \in Calls :
    pc[c] \in {"done", "idle"} =>
      \A p \in Pools : \A h \in Handles : lease[p][h] # c

\* a dispatch that borrowed a handle has returned on a failed factorization call
C6_Witness ==
  \E c \in Calls :
    /\ pc[c] = "done" /\ hist[c].fail = "getrf" /\ hist[c].borrows # <<>>
    /\ res[c] = "Unknown"

(***************************************************************************)
(* C7.  Under every interleaving of concurrent dispatch calls, no handle   *)
(* is held by two calls at once, and a handle held by a call is bound to   *)
(* that call's own stream for as long as the call holds it: every backend  *)
(* call the dispatch makes through the handle runs on its own stream.      *)
(***************************************************************************)
C7_HandleBindings ==
  \A c \in Calls :
    /\ loc[c].handle # 0 =>
         /\ bound[loc[c].pool][loc[c].handle] = arg[c].stream
         /\ lease[loc[c].pool][loc[c].handle] = c
         /\ \A d \in Calls \ {c} :
              ~(loc[d].handle = loc[c].handle /\ loc[d].pool = loc[c].pool)
    /\ \A k \in 1..Len(hist[c].log) : hist[c].log[k].stream = arg[c].stream

\* two calls on different streams hold handles of the solver pool at once,
\* while a returned handle of the other pool stays bound to some stream
C7_Witness ==
  \E c \in Calls : \E d \in Calls \ {c} :
    /\ loc[c].handle # 0 /\ loc[d].handle # 0
    /\ loc[c].pool = "solver" /\ loc[d].pool = "solver"
    /\ arg[c].stream # arg[d].stream
    /\ hist[c].log # <<>> /\ hist[d].log # <<>>
    /\ made["blas"] > 0

(***************************************************************************)
(* C8.  Every error the dispatch returns carries InvalidArgument or        *)
(* Unknown: InvalidArgument for a type mismatch, an undecomposable shape,  *)
(* a dimension overflow and an unsupported element type; Unknown for a     *)
(* scratch-allocation failure, a handle-creation failure, a launch error   *)
(* and a failed backend call (workspace query, copy, factorization).       *)
(***************************************************************************)
C8_ErrorCodes ==
  \A c \in Calls :
    LET s == ShapeOf(c)
    IN  Returning(c) =>
          /\ res[c] \in {"Success", "InvalidArgument", "Unknown"}
          /\ res[c] = "Success" <=> hist[c].fail = "none"
          /\ res[c] = "InvalidArgument" <=> hist[c].fail \in ValidationFailures
          /\ res[c] = "Unknown" <=> hist[c].fail \in RuntimeFailures
          /\ (\/ arg[c].inType # arg[c].outType
              \/ ~s.ok
              \/ arg[c].inType \notin Supported
              \/ s.rows > 2^(IntBits - 1) - 1
              \/ s.cols > 2^(IntBits - 1) - 1) => res[c] = "InvalidArgument"

\* a batched dispatch has returned Unknown after its scratch allocation failed
C8_Witness ==
  \E c \in Calls :
    /\ pc[c] = "done" /\ res[c] = "Unknown"
    /\ hist[c].fail = "scratch" /\ hist[c].path = "batched"

(***************************************************************************)
(* C9.  Once a runtime failure has occurred in a dispatch call (scratch    *)
(* exhaustion, handle-creation failure, a failed workspace query, copy,    *)
(* launch check or factorization call), the call makes no further backend  *)
(* call before it returns; and the calls it has made stay made: until the  *)
(* call has returned its log only grows.                                   *)
(***************************************************************************)
C9_NoWorkAfterFailure ==
  [][\A c \in Calls :
       pc[c] # "done" =>
         /\ IsPrefix(hist[c].log, hist'[c].log)
         /\ hist[c].fail \in RuntimeFailures =>
              /\ hist'[c].log = hist[c].log
              /\ pc'[c] = "done"]_vars

\* a looped dispatch has returned on the failure of its second factorization
\* call, with the copy and the first factorization issued
C9_Witness ==
  \E c \in Calls :
    /\ pc[c] = "done" /\ hist[c].fail = "getrf" /\ hist[c].path = "looped"
    /\ Len(DeviceLog(c)) = 3 /\ DeviceLog(c)[1].op = "memcpy"
    /\ hist[c].nfact = 1

(***************************************************************************)
(* C10.  A non-zero info code is no dispatch error.  A looped dispatch in  *)
(* which no backend call fails runs the factorization of every matrix and  *)
(* returns success, whichever matrices report a non-zero info code; while  *)
(* the loop runs, every matrix before the cursor has been factorized,      *)
(* the ones with a non-zero info code included.                            *)
(***************************************************************************)
C10_NumericalFailureIsNoError ==
  \A c \in Calls :
    hist[c].path = "looped" =>
      /\ (Returning(c) /\ hist[c].fail \notin (BackendFailures \cup {"scratch", "overflow"})) =>
           /\ res[c] = "Success"
           /\ hist[c].nfact = ShapeOf(c).batch
      /\ pc[c] = "l_loop" =>
           /\ res[c] = "none"
           /\ hist[c].nfact = loc[c].info_data
      /\ hist[c].bad \subseteq 0..(hist[c].nfact - 1)

\* a looped dispatch of several matrices has returned success although its
\* first matrix reported a non-zero info code
C10_Witness ==
  \E c \in Calls :
    /\ pc[c] = "done" /\ hist[c].path = "looped" /\ res[c] = "Success"
    /\ 0 \in hist[c].bad /\ ShapeOf(c).batch >= 2
    /\ hist[c].nfact = ShapeOf(c).batch

(***************************************************************************)
(* C11.  A dispatch whose input and output have the same element type, a   *)
(* type outside F32, F64, C64, C128, and whose shape decomposes returns    *)
(* InvalidArgument whether its shape selects the batched or the looped     *)
(* strategy: it enters neither GetrfBatchedImpl nor GetrfImpl, borrows no  *)
(* handle, allocates no scratch and makes no backend call.                 *)
(***************************************************************************)
C11_UnsupportedElementType ==
  \A c \in Calls :
    (pc[c] # "idle" /\ arg[c].inType = arg[c].outType
       /\ arg[c].inType \notin {"F32", "F64", "C64", "C128"} /\ ShapeOf(c).ok) =>
      /\ NothingIssued(c)
      /\ loc[c].handle = 0 /\ ~loc[c].workspace
      /\ hist[c].path = "none"
      /\ pc[c] \in {"types", "split", "select", "exit", "done"}
      /\ Returning(c) => (res[c] = "InvalidArgument" /\ hist[c].fail = "dtype")

\* a dispatch of an unsupported element type whose shape selects the batched
\* strategy has returned
C11_Witness ==
  \E c \in Calls :
    /\ pc[c] = "done" /\ arg[c].inType = "S32" /\ arg[c].outType = "S32"
    /\ ShapeOf(c).ok /\ ShapeOf(c).batch > 1 /\ ShapeOf(c).rows = ShapeOf(c).cols
    /\ ShapeOf(c).rows \div ShapeOf(c).batch <= 128
    /\ res[c] = "InvalidArgument"

(***************************************************************************)
(* C12.  A dispatch call issues at most one device copy, and none when the *)
(* input and the output are the same allocation.  When they are distinct,  *)
(* a call of either strategy that has got past its copy statement has      *)
(* issued exactly one: from the input to the output, on the caller's       *)
(* stream, of sizeof(T) * batch * rows * cols bytes; the copy precedes the *)
(* pointer-array build and every factorization call.  Every factorization  *)
(* call of the looped strategy and the pointer-array build address the     *)
(* output buffer, and the batched factorization the pointer array built    *)
(* over it.                                                                *)
(***************************************************************************)
C12_CopyBeforeFactorization ==
  \A c \in Calls :
    LET log == hist[c].log
        s == ShapeOf(c)
        copies == SelectSeq(log, LAMBDA o : o.op = "memcpy")
        past ==
          \/ pc[c] \in {"l_loop", "b_build", "b_check", "b_run", "b_done"}
          \/ /\ Returning(c) /\ hist[c].path # "none"
             /\ hist[c].fail \in {"none", "copy", "launch", "getrf"}
    IN  /\ Len(copies) <= 1
        /\ arg[c].aliased => copies = <<>>
        /\ (past /\ ~arg[c].aliased) => Len(copies) = 1
        /\ \A k \in 1..Len(log) :
             /\ log[k].op = "memcpy" =>
                  /\ log[k].bytes = SizeOf(arg[c].inType) * s.batch * s.rows * s.cols
                  /\ log[k].stream = arg[c].stream
                  /\ log[k].src = "a" /\ log[k].dst = "out"
                  /\ \A j \in 1..(k - 1) : log[j].op \notin DeviceOps
             /\ (log[k].op \in {"makeBatchPointers", "getrf", "getrfBatched"}
                   /\ ~arg[c].aliased) =>
                  \E j \in 1..(k - 1) : log[j].op = "memcpy"
             /\ log[k].op = "getrf" => log[k].buf = "out"
             /\ log[k].op = "makeBatchPointers" =>
                  (log[k].buffer = "out" /\ log[k].dev_ptrs = "workspace")
             /\ log[k].op = "getrfBatched" => log[k].a = "workspace"

\* a batched dispatch of several matrices with distinct input and output has
\* returned success: the copy, the build and the factorization, in this order
C12_Witness ==
  \E c \in Calls :
    /\ pc[c] = "done" /\ res[c] = "Success" /\ ~arg[c].aliased
    /\ ShapeOf(c).batch >= 2 /\ ShapeOf(c).cols >= 2
    /\ Len(hist[c].log) = 3
    /\ hist[c].log[1].op = "memcpy"
    /\ hist[c].log[2].op = "makeBatchPointers"
    /\ hist[c].log[3].op = "getrfBatched"

(***************************************************************************)
(* C13, as claimed.  In the looped strategy, for every rows and cols       *)
(* within the range of int, the k-th call of Run (k = 0, 1, ...) receives  *)
(* the output buffer at element offset k * rows * cols, the pivot array at *)
(* offset k * min(rows, cols) and the info array at offset k, the products *)
(* being the exact mathematical values.  The code computes the advance     *)
(* m * n in int: where rows * cols exceeds the range of int the product    *)
(* overflows and the offset of the next call need not be the exact one.    *)
(***************************************************************************)
C13_CursorOffsetsExact ==
  \A c \in Calls :
    hist[c].path = "looped" =>
      LET s == ShapeOf(c)
          runs == SelectSeq(hist[c].log, LAMBDA o : o.op = "getrf")
      IN  \A k \in 1..Len(runs) :
            /\ runs[k].a = (k - 1) * s.rows * s.cols
            /\ runs[k].ipiv = (k - 1) * Min(s.rows, s.cols)
            /\ runs[k].info = k - 1

\* a looped dispatch of two matrices, whose rows and cols are within the
\* range of int while rows * cols is not, has made its second call of Run
C13_Witness ==
  \E c \in Calls :
    LET s == ShapeOf(c)
        runs == SelectSeq(hist[c].log, LAMBDA o : o.op = "getrf")
    IN  /\ hist[c].path = "looped" /\ s.batch = 2
        /\ s.rows <= 2^(IntBits - 1) - 1 /\ s.cols <= 2^(IntBits - 1) - 1
        /\ s.rows * s.cols > 2^(IntBits - 1) - 1
        /\ Len(runs) = 2
        /\ runs[2].ipiv = Min(s.rows, s.cols) /\ runs[2].info = 1

(***************************************************************************)
(* C14.  In the batched strategy the pointer array is built at most once,  *)
(* on the caller's stream, in the scratch allocation of batch_count        *)
(* pointer slots, from the output buffer with batch_count slots and a      *)
(* stride of sizeof(T) * cols * cols bytes: slot i holds the address of    *)
(* the output buffer plus i * sizeof(T) * cols * cols.  The batched        *)
(* factorization is called at most once, only after the build, and exactly *)
(* once by a call that reaches it: with that array, cols as the order and  *)
(* the leading dimension, and the pivot and info arrays of the whole batch *)
(* (offset 0).  The looped strategy builds no pointer array.               *)
(***************************************************************************)
C14_BatchPointerArray ==
  \A c \in Calls :
    LET log == hist[c].log
        s == ShapeOf(c)
        builds == SelectSeq(log, LAMBDA o : o.op = "makeBatchPointers")
        runs == SelectSeq(log, LAMBDA o : o.op = "getrfBatched")
        probe == IF s.batch <= MaxBatch THEN 0..(s.batch - 1)
                                        ELSE {0, 1, s.batch - 1}
    IN  /\ Len(builds) <= 1 /\ Len(runs) <= 1
        /\ hist[c].path # "batched" => (builds = <<>> /\ runs = <<>>)
        /\ \A k \in 1..Len(log) :
             /\ log[k].op = "makeBatchPointers" =>
                  /\ log[k].stream = arg[c].stream
                  /\ log[k].buffer = "out" /\ log[k].dev_ptrs = "workspace"
                  /\ loc[c].workspace \/ Returning(c)
                  /\ hist[c].allocs = <<SizeofVoidPtr * s.batch>>
                  /\ log[k].batch = s.batch
                  /\ log[k].stride = SizeOf(arg[c].inType) * s.cols * s.cols
                  /\ \A i \in probe :
                       BatchPointers(0, log[k].batch, log[k].stride)[i]
                         = i * SizeOf(arg[c].inType) * s.cols * s.cols
                  /\ \A j \in 1..(k - 1) : log[j].op # "getrfBatched"
             /\ log[k].op = "getrfBatched" =>
                  /\ k > 1 /\ log[k - 1].op = "makeBatchPointers"
                  /\ log[k].a = "workspace"
                  /\ log[k].n = s.cols /\ log[k].lda = s.cols
                  /\ log[k].ipiv = 0 /\ log[k].info = 0
        /\ (hist[c].path = "batched"
              /\ (pc[c] = "b_done" \/ (Returning(c) /\ hist[c].fail \in {"none", "getrf"}))) =>
             (Len(builds) = 1 /\ Len(runs) = 1)

\* a batched dispatch of three 2 x 2 matrices has returned success, having
\* built the pointer array and called the batched factorization once
C14_Witness ==
  \E c \in Calls :
    LET log == hist[c].log
    IN  /\ pc[c] = "done" /\ res[c] = "Success" /\ hist[c].path = "batched"
        /\ ShapeOf(c).batch = 3 /\ ShapeOf(c).cols = 2
        /\ arg[c].inType = "C128"
        /\ Len(log) >= 2
        /\ log[Len(log) - 1].op = "makeBatchPointers"
        /\ log[Len(log) - 1].stride = 64
        /\ log[Len(log)].op = "getrfBatched"

(***************************************************************************)
(* C15.  In the batched strategy the statement after the pointer-array     *)
(* build is the check of the device launch status: between the build and   *)
(* the check the call makes no backend call, borrows and allocates         *)
(* nothing.  If the check passes, the batched factorization comes next; if *)
(* it reports an error the call returns an error, never success, and the   *)
(* batched factorization is called zero times, in that step and ever       *)
(* after.                                                                  *)
(***************************************************************************)
C15_LaunchCheckAfterBuild ==
  [][\A c \in Calls :
       LET log == hist[c].log
           logn == hist'[c].log
           appended(op) == /\ Len(logn) = Len(log) + 1
                           /\ logn[Len(logn)].op = op
       IN  /\ appended("makeBatchPointers") =>
                (pc[c] = "b_build" /\ pc'[c] = "b_check")
           /\ (pc[c] = "b_check" /\ pc'[c] # "b_check") =>
                /\ log # <<>> /\ log[Len(log)].op = "makeBatchPointers"
                /\ logn = log
                /\ hist'[c].allocs = hist[c].allocs
                /\ hist'[c].borrows = hist[c].borrows
                /\ \/ pc'[c] = "b_run" /\ res'[c] = "none" /\ hist'[c].fail = "none"
                   \/ /\ pc'[c] = "exit" /\ hist'[c].fail = "launch"
                      /\ res'[c] \notin {"none", "Success"}
           /\ appended("getrfBatched") =>
                (pc[c] = "b_run" /\ hist[c].fail = "none")
           /\ (pc'[c] = "b_run" /\ pc[c] # "b_run") => pc[c] = "b_check"
           /\ hist[c].fail = "launch" =>
                /\ Returning(c) /\ res[c] \notin {"none", "Success"}
                /\ \A k \in 1..Len(logn) : logn[k].op # "getrfBatched"]_vars

\* a batched dispatch has returned an error on a failed launch check, the
\* copy and the pointer-array build being all it issued
C15_Witness ==
  \E c \in Calls :
    /\ pc[c] = "done" /\ hist[c].fail = "launch" /\ res[c] # "Success"
    /\ ~arg[c].aliased /\ Len(hist[c].log) = 2
    /\ hist[c].log[1].op = "memcpy"
    /\ hist[c].log[2].op = "makeBatchPointers"

(***************************************************************************)
(* C16.  A dispatch call invokes Allocate at most once, and only once a    *)
(* strategy is entered.  The size is known before the call: the looped     *)
(* strategy asks for sizeof(T) * lwork bytes, lwork being the workspace    *)
(* length the query returned, and every call of Run is given that lwork;   *)
(* the batched strategy asks for batch_count times the size of a pointer.  *)
(* After an empty allocation the call returns without asking again, and    *)
(* the number of matrices factorized does not change the number of         *)
(* allocations.                                                            *)
(***************************************************************************)
C16_AllocateAtMostOnce ==
  \A c \in Calls :
    LET allocs == hist[c].allocs
        log == hist[c].log
    IN  /\ Len(allocs) <= 1
        /\ hist[c].path = "none" => allocs = <<>>
        /\ (hist[c].path = "looped" /\ allocs # <<>>) =>
             /\ pc[c] # "done" => allocs[1] = SizeOf(arg[c].inType) * loc[c].lwork
             /\ log # <<>> /\ log[1].op = "bufferSize"
             /\ \A k \in 1..Len(log) :
                  log[k].op = "getrf" => allocs[1] = SizeOf(arg[c].inType) * log[k].lwork
        /\ (hist[c].path = "batched" /\ allocs # <<>>) =>
             allocs[1] = SizeofVoidPtr * ShapeOf(c).batch
        /\ hist[c].fail = "scratch" => (Returning(c) /\ Len(allocs) = 1)
        /\ (pc[c] \in {"l_copy", "l_loop", "b_copy", "b_build", "b_check", "b_run", "b_done"}
              \/ hist[c].nfact > 0) => Len(allocs) = 1

\* a looped dispatch of three matrices has returned success with one
\* allocation, of sizeof(T) * lwork bytes for a non-zero lwork
C16_Witness ==
  \E c \in Calls :
    /\ pc[c] = "done" /\ res[c] = "Success" /\ hist[c].path = "looped"
    /\ hist[c].nfact = 3 /\ arg[c].inType = "F64"
    /\ hist[c].allocs = <<16>>

(***************************************************************************)
(* C17.  A dispatch call borrows at most one handle, and none before a     *)
(* strategy is entered.  The looped strategy borrows from the solver pool  *)
(* only, the batched strategy from the BLAS pool only.  Every backend call *)
(* made through a handle is made through the handle the call borrowed: in  *)
(* a looped dispatch the workspace-size query and every call of Run use    *)
(* one and the same handle.                                                *)
(***************************************************************************)
C17_OneHandlePerStrategy ==
  \A c \in Calls :
    LET borrows == hist[c].borrows
        log == hist[c].log
        viaHandle == {"bufferSize", "getrf", "getrfBatched"}
    IN  /\ Len(borrows) <= 1
        /\ hist[c].path = "none" => borrows = <<>>
        /\ (hist[c].path = "looped" /\ borrows # <<>>) => borrows[1][1] = "solver"
        /\ (hist[c].path = "batched" /\ borrows # <<>>) => borrows[1][1] = "blas"
        /\ \A k \in 1..Len(log) :
             log[k].op \in viaHandle =>
               /\ borrows # <<>> /\ log[k].handle = borrows[1][2]
               /\ log[k].op = "getrfBatched" <=> borrows[1][1] = "blas"
        /\ loc[c].handle # 0 => borrows = <<<<loc[c].pool, loc[c].handle>>>>

\* a looped dispatch of three matrices has returned success: one borrow from
\* the solver pool, the query and three calls of Run through that handle
C17_Witness ==
  \E c \in Calls :
    /\ pc[c] = "done" /\ res[c] = "Success" /\ hist[c].path = "looped"
    /\ Len(hist[c].borrows) = 1 /\ hist[c].borrows[1][1] = "solver"
    /\ Len(SelectSeq(hist[c].log, LAMBDA o : o.op = "getrf")) = 3
    /\ hist[c].log[1].op = "bufferSize"
    /\ made["blas"] > 0

(***************************************************************************)
(* C18, as claimed.  The batch count is handled faithfully for every       *)
(* batch_count that passes validation: the batched strategy passes to the  *)
(* batched factorization a batch count equal to batch_count, and a looped  *)
(* dispatch that returns success has made exactly batch_count calls of     *)
(* Run.  The parameter of the batched factorization is an int and          *)
(* batch_count is not overflow-checked: a batch_count beyond the range of  *)
(* int arrives as another number.                                          *)
(***************************************************************************)
C18_BatchCountFaithful ==
  \A c \in Calls :
    LET s == ShapeOf(c)
        log == hist[c].log
        runs == SelectSeq(log, LAMBDA o : o.op = "getrf")
    IN  /\ \A k \in 1..Len(log) :
             log[k].op = "getrfBatched" => log[k].batch = s.batch
        /\ (hist[c].path = "looped" /\ Returning(c) /\ res[c] = "Success") =>
             Len(runs) = s.batch

\* a batched dispatch whose batch_count is beyond the range of int, with
\* rows and cols within it, has called the batched factorization
C18_Witness ==
  \E c \in Calls :
    LET s == ShapeOf(c)
        log == hist[c].log
    IN  /\ hist[c].path = "batched" /\ s.batch > 2^(IntBits - 1) - 1
        /\ s.rows <= 2^(IntBits - 1) - 1 /\ s.cols <= 2^(IntBits - 1) - 1
        /\ log # <<>> /\ log[Len(log)].op = "getrfBatched"
        /\ hist[c].allocs = <<SizeofVoidPtr * s.batch>>

=============================================================================
